---- MODULE Spec2Model ----
(***************************************************************************)
(* Model of the KServe deployer steps                                      *)
(*   src/src/zenml/integrations/kserve/steps/kserve_deployer.py            *)
(* and of the custom model server                                          *)
(*   src/src/zenml/integrations/kserve/custom_deployer/zenml_custom_model.py *)
(*                                                                         *)
(* The model deployer (find_model_server, deploy_model) and the service    *)
(* (is_running, start) live outside the source tree; they are modelled     *)
(* from the specification's description of the DeploymentRegistry.         *)
(***************************************************************************)
EXTENDS Integers, Sequences, FiniteSets, TLC

\* ------------------------------------------------------------------ bounds
MaxTimeout == 2
MaxServices == 2
MaxExtraFiles == 2

\* ------------------------------------------------------------ value spaces
Runs == {"run1", "run2"}
PipelineNames == {"p1", "p2"}
StepNames == {"s1"}
ModelNames == {"m1", "m2"}
Predictors == {"sklearn", "pytorch", "custom"}
PredictFunctionPaths == {"pkg.mod.fn"}
Timeouts == 0..MaxTimeout
StepKinds == {"generic", "custom"}

\* Identity of a service: (pipeline name, step name, model name).  The empty
\* string is the default of the three fields of KServeDeploymentConfig.
Identities ==
    [pipeline_name : PipelineNames \cup {""},
     pipeline_step_name : StepNames \cup {""},
     model_name : ModelNames]

NoIdentity == [pipeline_name |-> "", pipeline_step_name |-> "", model_name |-> ""]
NoService == [ident |-> NoIdentity, n |-> 0]
NoContainers == [name |-> "", image |-> "", command |-> <<>>, storage_uri |-> ""]
NoParamters == [present |-> FALSE, predict_function |-> ""]
NoTorchParamters == [present |-> FALSE, handler |-> ""]
NoServiceConfig ==
    [pipeline_name |-> "", pipeline_run_id |-> "", pipeline_step_name |-> "",
     model_name |-> "", predictor |-> "", model_uri |-> "", containers |-> NoContainers]
NoConfig ==
    [service_config |-> NoServiceConfig, torch_serve_paramters |-> NoTorchParamters,
     custom_deploy_paramters |-> NoParamters, timeout |-> 0]

VARIABLES
    registry,           \* the deployed services, per identity, most recent first
    pc,                 \* position of each pipeline run inside its deployer step
    kind,               \* which step the run executes: generic or custom
    deploy_decision,    \* the step's deploy_decision argument
    config,             \* the step's config argument (mutated by the step)
    existing_services,  \* the step's local existing_services
    service,            \* the value the step returned
    error,              \* the exception the step ended with
    calls,              \* the calls the current invocation made to the platform
    srv,                \* the custom model server process
    build               \* the last construction of a parameter object

vars == <<registry, pc, kind, deploy_decision, config, existing_services,
          service, error, calls, srv, build>>
stepVars == <<registry, pc, kind, deploy_decision, config, existing_services,
              service, error, calls>>

\* =================================================================
\* The deployment registry and the services (external collaborators)
\* =================================================================

IdentityOf(service_config) ==
    [pipeline_name |-> service_config.pipeline_name,
     pipeline_step_name |-> service_config.pipeline_step_name,
     model_name |-> service_config.model_name]

\* find(identity): the matching services, most recently created first.
find_model_server(reg, pipeline_name, pipeline_step_name, model_name) ==
    LET ident == [pipeline_name |-> pipeline_name,
                  pipeline_step_name |-> pipeline_step_name,
                  model_name |-> model_name]
    IN  [i \in 1..Len(reg[ident]) |-> [ident |-> ident, n |-> reg[ident][i].n]]

\* service.is_running: the live state of the service on the platform.
is_running(reg, svc) ==
    \E i \in 1..Len(reg[svc.ident]) :
        reg[svc.ident][i].n = svc.n /\ reg[svc.ident][i].running

SetRunning(reg, svc, b) ==
    [reg EXCEPT ![svc.ident] =
        [i \in 1..Len(@) |-> IF @[i].n = svc.n THEN [@[i] EXCEPT !.running = b]
                                               ELSE @[i]]]

\* What a start (or the start at the end of a deploy) can end in.  A positive
\* timeout waits for the service to become ready and fails otherwise; a
\* timeout of zero does not wait for readiness.
StartOutcomes(timeout) ==
    IF timeout > 0
    THEN {[ok |-> TRUE, running |-> TRUE], [ok |-> FALSE, running |-> FALSE]}
    ELSE {[ok |-> TRUE, running |-> TRUE], [ok |-> TRUE, running |-> FALSE],
          [ok |-> FALSE, running |-> FALSE]}

\* service.start(timeout) with outcome o.
start(reg, svc, o) == SetRunning(reg, svc, o.running)

\* deploy(config, replace, timeout) with outcome o of its start: with replace
\* the most recent match is updated in place and every other match is
\* stopped; otherwise a new service is created.
deploy_model(reg, service_config, replace, o) ==
    LET ident == IdentityOf(service_config)
        matches == reg[ident]
    IN  IF replace /\ matches # <<>>
        THEN [registry |->
                [reg EXCEPT ![ident] =
                    [i \in 1..Len(matches) |->
                        [matches[i] EXCEPT !.running = (i = 1 /\ o.running)]]],
              service |-> [ident |-> ident, n |-> matches[1].n]]
        ELSE [registry |->
                [reg EXCEPT ![ident] =
                    <<[n |-> Len(matches) + 1, running |-> o.running]>> \o matches],
              service |-> [ident |-> ident, n |-> Len(matches) + 1]]

CanDeploy(reg, service_config, replace) ==
    (replace /\ reg[IdentityOf(service_config)] # <<>>)
        \/ Len(reg[IdentityOf(service_config)]) < MaxServices

\* One entry of the log of platform calls of an invocation.
Call(op, ident, svc, service_config, replace, timeout, ok) ==
    [op |-> op, ident |-> ident, svc |-> svc, service_config |-> service_config,
     replace |-> replace, timeout |-> timeout, ok |-> ok]

CallsOf(r, op) == {i \in 1..Len(calls[r]) : calls[r][i].op = op}

\* =================================================================
\* The deployer steps
\* =================================================================

\* The configurations a pipeline author can hand to a step.
StepConfigs ==
    [service_config :
        [pipeline_name : {""} \cup PipelineNames, pipeline_run_id : {""},
         pipeline_step_name : {""}, model_name : ModelNames,
         predictor : Predictors, model_uri : {""}, containers : {NoContainers}],
     torch_serve_paramters :
        {NoTorchParamters, [present |-> TRUE, handler |-> "image_classifier"]},
     custom_deploy_paramters :
        {NoParamters} \cup
        [present : {TRUE}, predict_function : PredictFunctionPaths],
     timeout : Timeouts]

\* The step environment of a run: pipeline name, run id and step name.
StepEnvironments(r) ==
    [pipeline_name : PipelineNames, pipeline_run_id : {r}, step_name : StepNames]

\* config.service_config.pipeline_name = pipeline_name, ... (both steps)
UpdateServiceConfig(service_config, step_env) ==
    [service_config EXCEPT !.pipeline_name = step_env.pipeline_name,
                           !.pipeline_run_id = step_env.pipeline_run_id,
                           !.pipeline_step_name = step_env.step_name]

\* Variant of the reuse test: the deploy decision is not consulted.
ReuseWheneverExisting(decision, existing) == existing # <<>>

\* `if not deploy_decision and existing_services:` of the generic step
GenericTakesReuse(decision, existing) == ~decision /\ existing # <<>>

\* `if not deploy_decision and existing_services:` of the custom step
CustomTakesReuse(decision, existing) == ~decision /\ existing # <<>>

\* Variant of the selection: the oldest match instead of the most recent.
SelectOldest(existing) == existing[Len(existing)]

\* `service = existing_services[0]`
GenericSelect(existing) == existing[1]
CustomSelect(existing) == existing[1]

\* Variants of the is_running test: the start is issued always, or never.
AlwaysStart(reg, svc) == TRUE
NeverStart(reg, svc) == FALSE
CustomNeverStart(reg, svc) == FALSE

\* `if not service.is_running:`
GenericNeedsStart(reg, svc) == ~is_running(reg, svc)
CustomNeedsStart(reg, svc) == ~is_running(reg, svc)

\* Variant of the start call: start() with its default timeout.
StartDefaultTimeout(cfg) == 0

\* `service.start(timeout=config.timeout)`
GenericStartTimeout(cfg) == cfg.timeout
CustomStartTimeout(cfg) == cfg.timeout

\* Variants of the deploy call: replace=False.
DeployNoReplace == FALSE
CustomDeployNoReplace == FALSE

\* `deploy_model(service_config, replace=True, timeout=config.timeout)`
GenericDeployReplace == TRUE
CustomDeployReplace == TRUE
GenericDeployTimeout(cfg) == cfg.timeout
CustomDeployTimeout(cfg) == cfg.timeout

\* The prepare functions of kserve_step_utils: a copy of config.service_config
\* whose model_uri points at the served model.
prepare_service_config(cfg) ==
    [cfg.service_config EXCEPT !.model_uri = "served_model_uri"]
prepare_torch_service_config(cfg) ==
    [cfg.service_config EXCEPT !.model_uri = "served_model_uri/torch"]
prepare_custom_service_config(cfg) ==
    [cfg.service_config EXCEPT !.model_uri = "served_model_uri"]

\* prepare_torch_service_config needs the PyTorch-serving parameters of the
\* configuration and fails without them.
TorchParamtersMissing(cfg) ==
    cfg.service_config.predictor = "pytorch" /\ ~cfg.torch_serve_paramters.present

\* The service configuration the generic step deploys.
GenericServiceConfig(cfg) ==
    IF cfg.service_config.predictor = "pytorch"
    THEN prepare_torch_service_config(cfg)
    ELSE prepare_service_config(cfg)

\* entrypoint_command of the custom step
EntrypointCommand(cfg) ==
    <<"python", "-m", "zenml.integrations.kserve.custom_deployer.zenml_custom_model",
      "--model_name", cfg.service_config.model_name,
      "--predict_func", cfg.custom_deploy_paramters.predict_function>>

\* The service configuration the custom step deploys, containers included.
CustomServiceConfig(cfg, image) ==
    LET service_config == prepare_custom_service_config(cfg)
    IN  [service_config EXCEPT !.containers =
            [name |-> service_config.model_name, image |-> image,
             command |-> EntrypointCommand(cfg),
             storage_uri |-> service_config.model_uri]]

\* The reconciliation decision of the generic step, lines 267-314: what it
\* does, on which service or identity, with which arguments.
GenericDecision(decision, existing, reg, cfg) ==
    IF GenericTakesReuse(decision, existing)
    THEN LET svc == GenericSelect(existing)
         IN  IF GenericNeedsStart(reg, svc)
             THEN [action |-> "start", svc |-> svc, ident |-> svc.ident,
                   replace |-> FALSE, timeout |-> GenericStartTimeout(cfg)]
             ELSE [action |-> "return", svc |-> svc, ident |-> svc.ident,
                   replace |-> FALSE, timeout |-> 0]
    ELSE [action |-> "deploy", svc |-> NoService,
          ident |-> IdentityOf(GenericServiceConfig(cfg)),
          replace |-> GenericDeployReplace, timeout |-> GenericDeployTimeout(cfg)]

\* The reconciliation decision of the custom step, lines 376-441.
CustomDecision(decision, existing, reg, cfg) ==
    IF CustomTakesReuse(decision, existing)
    THEN LET svc == CustomSelect(existing)
         IN  IF CustomNeedsStart(reg, svc)
             THEN [action |-> "start", svc |-> svc, ident |-> svc.ident,
                   replace |-> FALSE, timeout |-> CustomStartTimeout(cfg)]
             ELSE [action |-> "return", svc |-> svc, ident |-> svc.ident,
                   replace |-> FALSE, timeout |-> 0]
    ELSE [action |-> "deploy", svc |-> NoService,
          ident |-> IdentityOf(CustomServiceConfig(cfg, "custom_docker_image")),
          replace |-> CustomDeployReplace, timeout |-> CustomDeployTimeout(cfg)]

\* What deploy_model can end in: its start's outcomes once the service is
\* provisioned, or a rejection that leaves the registry as it was.
DeployOutcomes(timeout) ==
    {[ok |-> o.ok, running |-> o.running, provisioned |-> TRUE] :
        o \in StartOutcomes(timeout)}
      \cup {[ok |-> FALSE, running |-> FALSE, provisioned |-> FALSE]}

Returns(r, svc) ==
    /\ pc' = [pc EXCEPT ![r] = "returned"]
    /\ service' = [service EXCEPT ![r] = svc]
    /\ error' = [error EXCEPT ![r] = "none"]

Raises(r, e) ==
    /\ pc' = [pc EXCEPT ![r] = "failed"]
    /\ service' = [service EXCEPT ![r] = NoService]
    /\ error' = [error EXCEPT ![r] = e]

\* Lines 243-262 (generic) and 352-372 (custom): read the step environment,
\* write it into the configuration, look the identity up.
Lookup(r, k, decision, cfg, step_env) ==
    LET updated == [cfg EXCEPT !.service_config =
                        UpdateServiceConfig(cfg.service_config, step_env)]
        found == find_model_server(registry, step_env.pipeline_name,
                                   step_env.step_name,
                                   updated.service_config.model_name)
    IN  /\ pc' = [pc EXCEPT ![r] = "found"]
        /\ kind' = [kind EXCEPT ![r] = k]
        /\ deploy_decision' = [deploy_decision EXCEPT ![r] = decision]
        /\ config' = [config EXCEPT ![r] = updated]
        /\ existing_services' = [existing_services EXCEPT ![r] = found]
        /\ calls' = [calls EXCEPT ![r] =
              <<Call("find_model_server",
                     [pipeline_name |-> step_env.pipeline_name,
                      pipeline_step_name |-> step_env.step_name,
                      model_name |-> updated.service_config.model_name],
                     NoService, NoServiceConfig, FALSE, 0, TRUE)>>]
        /\ UNCHANGED <<registry, service, error, srv, build>>

GenericLookup(r) ==
    /\ pc[r] = "idle"
    /\ \E decision \in BOOLEAN, cfg \in StepConfigs, step_env \in StepEnvironments(r) :
          Lookup(r, "generic", decision, cfg, step_env)

\* Line 349-350 of the custom step: no custom deploy parameters.
CustomMissingParamters(r) ==
    /\ pc[r] = "idle"
    /\ \E decision \in BOOLEAN, cfg \in StepConfigs :
          /\ ~cfg.custom_deploy_paramters.present
          /\ kind' = [kind EXCEPT ![r] = "custom"]
          /\ deploy_decision' = [deploy_decision EXCEPT ![r] = decision]
          /\ config' = [config EXCEPT ![r] = cfg]
          /\ Raises(r, "ValueError")
          /\ UNCHANGED <<registry, existing_services, calls, srv, build>>

CustomLookup(r) ==
    /\ pc[r] = "idle"
    /\ \E decision \in BOOLEAN, cfg \in StepConfigs, step_env \in StepEnvironments(r) :
          /\ cfg.custom_deploy_paramters.present
          /\ Lookup(r, "custom", decision, cfg, step_env)

\* Variant of the reuse branch: a failed start is tried a second time.
ReuseRetry(r, svc, needsStart, timeout) ==
    /\ UNCHANGED <<kind, deploy_decision, config, existing_services, srv, build>>
    /\ IF needsStart
       THEN \E o \in StartOutcomes(timeout), o2 \in StartOutcomes(timeout) :
              LET first == Call("start", svc.ident, svc, NoServiceConfig, FALSE,
                                timeout, o.ok)
                  second == Call("start", svc.ident, svc, NoServiceConfig, FALSE,
                                 timeout, o2.ok)
              IN  IF o.ok
                  THEN /\ registry' = start(registry, svc, o)
                       /\ calls' = [calls EXCEPT ![r] = Append(@, first)]
                       /\ Returns(r, svc)
                  ELSE /\ registry' = start(registry, svc, o2)
                       /\ calls' = [calls EXCEPT ![r] = Append(Append(@, first), second)]
                       /\ IF o2.ok THEN Returns(r, svc)
                                   ELSE Raises(r, "DeploymentError")
       ELSE /\ UNCHANGED <<registry, calls>>
            /\ Returns(r, svc)

\* The reuse branch: start the selected service if it is not running and
\* return it; a failed start ends the step.
Reuse(r, svc, needsStart, timeout) ==
    /\ UNCHANGED <<kind, deploy_decision, config, existing_services, srv, build>>
    /\ IF needsStart
       THEN \E o \in StartOutcomes(timeout) :
              /\ registry' = start(registry, svc, o)
              /\ calls' = [calls EXCEPT ![r] =
                    Append(@, Call("start", svc.ident, svc, NoServiceConfig,
                                   FALSE, timeout, o.ok))]
              /\ IF o.ok THEN Returns(r, svc) ELSE Raises(r, "DeploymentError")
       ELSE /\ UNCHANGED <<registry, calls>>
            /\ Returns(r, svc)

\* Lines 267-280
GenericReuse(r) ==
    /\ pc[r] = "found" /\ kind[r] = "generic"
    /\ GenericTakesReuse(deploy_decision[r], existing_services[r])
    /\ LET svc == GenericSelect(existing_services[r])
       IN  Reuse(r, svc, GenericNeedsStart(registry, svc),
                 GenericStartTimeout(config[r]))

\* Lines 376-389
CustomReuse(r) ==
    /\ pc[r] = "found" /\ kind[r] = "custom"
    /\ CustomTakesReuse(deploy_decision[r], existing_services[r])
    /\ LET svc == CustomSelect(existing_services[r])
       IN  Reuse(r, svc, CustomNeedsStart(registry, svc),
                 CustomStartTimeout(config[r]))

\* The deploy branch: one call of deploy_model, whose service is returned.
Deploy(r, service_config, replace, timeout) ==
    /\ CanDeploy(registry, service_config, replace)
    /\ \E o \in DeployOutcomes(timeout) :
          LET done == deploy_model(registry, service_config, replace, o)
          IN  /\ registry' = IF o.provisioned THEN done.registry ELSE registry
              /\ calls' = [calls EXCEPT ![r] =
                    Append(@, Call("deploy_model", IdentityOf(service_config),
                                   IF o.ok THEN done.service ELSE NoService,
                                   service_config, replace, timeout, o.ok))]
              /\ IF o.ok THEN Returns(r, done.service)
                         ELSE Raises(r, "DeploymentError")

\* Lines 285-296 failing: the predictor is pytorch and the configuration has
\* no PyTorch-serving parameters.
GenericTorchMissingParamters(r) ==
    /\ pc[r] = "found" /\ kind[r] = "generic"
    /\ ~GenericTakesReuse(deploy_decision[r], existing_services[r])
    /\ TorchParamtersMissing(config[r])
    /\ Raises(r, "MissingTorchParamters")
    /\ UNCHANGED <<registry, kind, deploy_decision, config, existing_services,
                   calls, srv, build>>

\* Lines 285-322
GenericDeploy(r) ==
    /\ pc[r] = "found" /\ kind[r] = "generic"
    /\ ~GenericTakesReuse(deploy_decision[r], existing_services[r])
    /\ ~TorchParamtersMissing(config[r])
    /\ Deploy(r, GenericServiceConfig(config[r]), GenericDeployReplace,
              GenericDeployTimeout(config[r]))
    /\ UNCHANGED <<kind, deploy_decision, config, existing_services, srv, build>>

\* Lines 407-413 failing: the image of the custom deployment cannot be built.
CustomImageFails(r) ==
    /\ pc[r] = "found" /\ kind[r] = "custom"
    /\ ~CustomTakesReuse(deploy_decision[r], existing_services[r])
    /\ calls' = [calls EXCEPT ![r] =
          Append(@, Call("prepare_custom_deployment_image",
                         IdentityOf(config[r].service_config), NoService,
                         NoServiceConfig, FALSE, 0, FALSE))]
    /\ Raises(r, "DeploymentError")
    /\ UNCHANGED <<registry, kind, deploy_decision, config, existing_services, srv, build>>

\* Lines 391-449
CustomDeploy(r) ==
    /\ pc[r] = "found" /\ kind[r] = "custom"
    /\ ~CustomTakesReuse(deploy_decision[r], existing_services[r])
    /\ LET withImage == [calls EXCEPT ![r] =
              Append(@, Call("prepare_custom_deployment_image",
                             IdentityOf(config[r].service_config), NoService,
                             NoServiceConfig, FALSE, 0, TRUE))]
           service_config == CustomServiceConfig(config[r], "custom_docker_image")
           replace == CustomDeployReplace
           timeout == CustomDeployTimeout(config[r])
       IN  /\ CanDeploy(registry, service_config, replace)
           /\ \E o \in DeployOutcomes(timeout) :
                LET done == deploy_model(registry, service_config, replace, o)
                IN  /\ registry' = IF o.provisioned THEN done.registry ELSE registry
                    /\ calls' = [withImage EXCEPT ![r] =
                          Append(@, Call("deploy_model", IdentityOf(service_config),
                                         IF o.ok THEN done.service ELSE NoService,
                                         service_config, replace, timeout, o.ok))]
                    /\ IF o.ok THEN Returns(r, done.service)
                               ELSE Raises(r, "DeploymentError")
    /\ UNCHANGED <<kind, deploy_decision, config, existing_services, srv, build>>

\* The step's frame is gone: the pipeline run can execute a step again.
Finish(r) ==
    /\ pc[r] \in {"returned", "failed"}
    /\ pc' = [pc EXCEPT ![r] = "idle"]
    /\ kind' = [kind EXCEPT ![r] = "generic"]
    /\ deploy_decision' = [deploy_decision EXCEPT ![r] = FALSE]
    /\ config' = [config EXCEPT ![r] = NoConfig]
    /\ existing_services' = [existing_services EXCEPT ![r] = <<>>]
    /\ service' = [service EXCEPT ![r] = NoService]
    /\ error' = [error EXCEPT ![r] = "none"]
    /\ calls' = [calls EXCEPT ![r] = <<>>]
    /\ UNCHANGED <<registry, srv, build>>

\* The platform stops a running service (an operator, a crash, a scale-down).
ExternalStop ==
    /\ \E ident \in Identities : \E i \in 1..Len(registry[ident]) :
          /\ registry[ident][i].running
          /\ registry' = [registry EXCEPT ![ident][i].running = FALSE]
    /\ UNCHANGED <<pc, kind, deploy_decision, config, existing_services,
                   service, error, calls, srv, build>>


\* =================================================================
\* The parameter objects and their validators
\* =================================================================

\* A path is its components and whether it is absolute; the empty string is
\* the relative path without components.
Path(abs, parts) == [abs |-> abs, parts |-> parts]
EmptyPath == Path(FALSE, <<>>)

\* The root of the repository, which is also the working directory.
SourceRoot == Path(TRUE, <<"repo">>)

TORCH_HANDLERS ==
    {Path(FALSE, <<"image_classifier">>), Path(FALSE, <<"image_segmenter">>),
     Path(FALSE, <<"object_detector">>), Path(FALSE, <<"text_classifier">>)}

\* os.path.join(a, b): an absolute b replaces a.
PathJoin(a, b) == IF b.abs THEN b ELSE Path(a.abs, a.parts \o b.parts)

\* pathlib's resolve(): "." is dropped, ".." drops the component before it.
RECURSIVE Normalize(_, _)
Normalize(done, todo) ==
    IF todo = <<>> THEN done
    ELSE IF Head(todo) = "." THEN Normalize(done, Tail(todo))
    ELSE IF Head(todo) = ".."
         THEN Normalize(IF done = <<>> THEN done
                        ELSE SubSeq(done, 1, Len(done) - 1), Tail(todo))
    ELSE Normalize(Append(done, Head(todo)), Tail(todo))

Resolve(v) == Path(TRUE, Normalize(<<>>, PathJoin(SourceRoot, v).parts))

\* is_inside_repository(v): the repository root is a proper ancestor of the
\* resolved path.
is_inside_repository(v) ==
    LET a == Resolve(v).parts
        root == SourceRoot.parts
    IN  Len(a) > Len(root) /\ SubSeq(a, 1, Len(root)) = root

get_source_root_path == SourceRoot

Valid(v) == [ok |-> TRUE, v |-> v]
Invalid == [ok |-> FALSE, v |-> EmptyPath]

\* Optional values: None, or a value.
None == [some |-> FALSE, v |-> EmptyPath]
Some(v) == [some |-> TRUE, v |-> v]
NoFiles == [some |-> FALSE, v |-> <<>>]

\* Variant of model_class_validate: the path is returned as given.
ModelClassUnjoined(v) ==
    IF v = EmptyPath THEN Invalid
    ELSE IF ~is_inside_repository(v) THEN Invalid
    ELSE Valid(v)

\* model_class_validate, lines 74-93
model_class_validate(v) ==
    IF v = EmptyPath THEN Invalid
    ELSE IF ~is_inside_repository(v) THEN Invalid
    ELSE Valid(PathJoin(get_source_root_path, v))

\* handler_validate, lines 95-119
handler_validate(v) ==
    IF v # EmptyPath
    THEN IF v \in TORCH_HANDLERS THEN Valid(v)
         ELSE IF is_inside_repository(v)
              THEN Valid(PathJoin(get_source_root_path, v))
              ELSE Invalid
    ELSE Invalid

\* extra_files_validate, lines 121-148
extra_files_validate(v) ==
    IF v.some
    THEN IF \A i \in 1..Len(v.v) : is_inside_repository(v.v[i])
         THEN [ok |-> TRUE,
               v |-> [some |-> TRUE,
                      v |-> [i \in 1..Len(v.v) |->
                                PathJoin(get_source_root_path, v.v[i])]]]
         ELSE [ok |-> FALSE, v |-> NoFiles]
    ELSE [ok |-> TRUE, v |-> v]

\* torch_config_validate, lines 150-170
torch_config_validate(v) ==
    IF v.some /\ v.v # EmptyPath
    THEN IF is_inside_repository(v.v)
         THEN [ok |-> TRUE, v |-> Some(PathJoin(get_source_root_path, v.v))]
         ELSE [ok |-> FALSE, v |-> None]
    ELSE [ok |-> TRUE, v |-> v]

\* The paths a pipeline author writes.
PathInputs ==
    {Path(FALSE, <<"net.py">>), Path(FALSE, <<"sub", "..", "net.py">>),
     Path(FALSE, <<"..", "out.py">>), Path(FALSE, <<".">>),
     Path(TRUE, <<"repo", "net.py">>), Path(TRUE, <<"etc", "net.py">>)}

FileLists == UNION {[1..n -> PathInputs] : n \in 0..MaxExtraFiles}

TorchInputs ==
    [model_class : PathInputs \cup {EmptyPath},
     handler : PathInputs \cup {EmptyPath, Path(FALSE, <<"image_classifier">>),
                                Path(FALSE, <<"text_classifier">>)},
     extra_files : {NoFiles} \cup {[some |-> TRUE, v |-> l] : l \in FileLists},
     torch_config : {None} \cup {Some(x) : x \in PathInputs \cup {EmptyPath}}]

NoTorchInput ==
    [model_class |-> EmptyPath, handler |-> EmptyPath, extra_files |-> NoFiles,
     torch_config |-> None]

\* The references to a predict function a pipeline author writes, and what
\* import_class_by_path does with each: it returns the object the path
\* names, or raises.
PredictFunctionRefs ==
    PredictFunctionPaths \cup {"", "pkg.mod.CONSTANT", "pkg.mod.missing", "nopkg.mod.fn"}

import_class_by_path(v) ==
    CASE v = "pkg.mod.fn" -> [raises |-> "none", object |-> "callable"]
      [] v = "pkg.mod.CONSTANT" -> [raises |-> "none", object |-> "not_callable"]
      [] v = "pkg.mod.missing" -> [raises |-> "AttributeError", object |-> "none"]
      [] OTHER -> [raises |-> "ModuleNotFoundError", object |-> "none"]

\* predict_function_validate, lines 182-201: the outcome is the returned
\* value, or the exception that leaves the validator.
predict_function_validate(v) ==
    IF v = ""
    THEN [raises |-> "ValueError", v |-> ""]
    ELSE IF import_class_by_path(v).raises = "AttributeError"
         THEN [raises |-> "ValueError", v |-> ""]
         ELSE IF import_class_by_path(v).raises # "none"
              THEN [raises |-> import_class_by_path(v).raises, v |-> ""]
              ELSE [raises |-> "none", v |-> v]

\* pydantic turns a validator's ValueError into the ValidationError of the
\* constructor; any other exception leaves the constructor as it is.
ConstructorError(raises) ==
    IF raises = "ValueError" THEN "ValidationError" ELSE raises

NoBuild ==
    [what |-> "none", torch_in |-> NoTorchInput, torch_out |-> NoTorchInput,
     custom_in |-> "", custom_out |-> "", error |-> "none"]

\* TorchServeParamters(...), lines 54-170: every validator runs on its field.
BuildTorchServeParamters ==
    /\ build.what = "none"
    /\ \E in \in TorchInputs :
          LET mc == model_class_validate(in.model_class)
              h == handler_validate(in.handler)
              ef == extra_files_validate(in.extra_files)
              tc == torch_config_validate(in.torch_config)
          IN  build' =
                IF mc.ok /\ h.ok /\ ef.ok /\ tc.ok
                THEN [NoBuild EXCEPT !.what = "torch", !.torch_in = in,
                        !.torch_out = [model_class |-> mc.v, handler |-> h.v,
                                       extra_files |-> ef.v, torch_config |-> tc.v]]
                ELSE [NoBuild EXCEPT !.what = "torch", !.torch_in = in,
                        !.error = "ValidationError"]
    /\ UNCHANGED <<stepVars, srv>>

\* CustomDeployParamters(predict_function=...), lines 173-201
BuildCustomDeployParamters ==
    /\ build.what = "none"
    /\ \E v \in PredictFunctionRefs :
          LET out == predict_function_validate(v)
          IN  build' = [NoBuild EXCEPT !.what = "custom", !.custom_in = v,
                          !.custom_out = out.v,
                          !.error = ConstructorError(out.raises)]
    /\ UNCHANGED <<stepVars, srv>>

\* The parameter object, or the exception, is dropped.
DiscardBuild ==
    /\ build.what # "none"
    /\ build' = NoBuild
    /\ UNCHANGED <<stepVars, srv>>

NextConfig ==
    \/ BuildTorchServeParamters
    \/ BuildCustomDeployParamters
    \/ DiscardBuild

\* Values of the custom model server.
Requests == {"q1", "q2"}
ServerModelNames == {"m1", "m2"}

\* What the user's predict function does with a request: it returns a
\* mapping, returns something that is not a mapping, or raises.
Behaviours == {"mapping", "not_mapping", "raises"}

\* import_class_by_path(predict_func) yields a callable, or whatever object
\* the path names: None is one such object.
NoFunction == [bound |-> FALSE, on |-> [q \in Requests |-> "raises"]]
PredictFunctions ==
    {NoFunction} \cup [bound : {TRUE}, on : [Requests -> Behaviours]]

\* Where load() can fail: the download of line 47, then the steps of
\* _load_model_with_zenml_artifact.
LoadFailures ==
    {"open_manifest", "parse_manifest", "manifest_key", "materializer_class",
     "datatype_class", "materializer_init", "handle_input"}

NoPredict ==
    [request |-> "", invoked |-> FALSE, ready |-> FALSE, behaviour |-> "",
     outcome |-> "none", result |-> "none"]

NoServer ==
    [phase |-> "none", name |-> "", predict_path |-> "",
     predict_func |-> NoFunction,
     model |-> "None", ready |-> FALSE, load |-> "none", last |-> NoPredict,
     process |-> "not_started", argv |-> <<>>, exit |-> "none"]

StepInit ==
    /\ registry = [ident \in Identities |-> <<>>]
    /\ pc = [r \in Runs |-> "idle"]
    /\ kind = [r \in Runs |-> "generic"]
    /\ deploy_decision = [r \in Runs |-> FALSE]
    /\ config = [r \in Runs |-> NoConfig]
    /\ existing_services = [r \in Runs |-> <<>>]
    /\ service = [r \in Runs |-> NoService]
    /\ error = [r \in Runs |-> "none"]
    /\ calls = [r \in Runs |-> <<>>]

Init == StepInit /\ srv = NoServer /\ build = NoBuild

Step(r) ==
    \/ GenericLookup(r)
    \/ GenericReuse(r)
    \/ GenericTorchMissingParamters(r)
    \/ GenericDeploy(r)
    \/ CustomMissingParamters(r)
    \/ CustomLookup(r)
    \/ CustomReuse(r)
    \/ CustomImageFails(r)
    \/ CustomDeploy(r)
    \/ Finish(r)

\* One pipeline run after the other executes a deployer step, while the
\* platform may stop services.
Next == Step("run1") \/ ExternalStop

Spec == Init /\ [][Next]_vars

\* Two pipeline runs race on the identities of one pipeline; the registry
\* serialises their calls.
RaceInputs ==
    \A r \in Runs :
        /\ config[r].service_config.predictor \in {"", "sklearn"}
        /\ config[r].service_config.pipeline_name \in {"", "p1"}
        /\ config[r].timeout \in {0, MaxTimeout}
        /\ ~config[r].torch_serve_paramters.present
        /\ \A i \in 1..Len(calls[r]) : calls[r][i].ident.pipeline_name = "p1"

RaceStep(r) == Step(r) /\ RaceInputs'

NextRace == (\E r \in Runs : RaceStep(r)) \/ ExternalStop

SpecRace == Init /\ [][NextRace]_vars

\* Somebody deploys a service for an identity without replacing the ones it
\* has: the registry then holds several matches, the new one first.
StaleIdentities ==
    {i \in Identities : i.pipeline_name = "p1" /\ i.pipeline_step_name = "s1"
                           /\ i.model_name = "m1"}

ExternalDeploy ==
    /\ \E ident \in StaleIdentities, running \in BOOLEAN :
          /\ Len(registry[ident]) < MaxServices
          /\ registry' = [registry EXCEPT ![ident] =
                <<[n |-> Len(@) + 1, running |-> running]>> \o @]
    /\ UNCHANGED <<pc, kind, deploy_decision, config, existing_services,
                   service, error, calls, srv, build>>

StaleInputs ==
    \A r \in Runs :
        /\ config[r].service_config.pipeline_name \in {"", "p1"}
        /\ config[r].service_config.model_name \in {"", "m1"}
        /\ config[r].timeout \in {0, MaxTimeout}
        /\ \A i \in 1..Len(calls[r]) : calls[r][i].ident \in StaleIdentities

StaleStep(r) == Step(r) /\ StaleInputs'

\* One pipeline run after the other executes a deployer step on an identity
\* that can have several services.
NextStale == StaleStep("run1") \/ ExternalStop \/ ExternalDeploy

SpecStale == Init /\ [][NextStale]_vars

\* Pipeline authors construct parameter objects.
SpecConfig == Init /\ [][NextConfig]_vars

\* =================================================================
\* The custom model server (ZenMLCustomModel and main)
\* =================================================================

\* ZenMLCustomModel.__init__
Construct ==
    /\ srv.phase = "none"
    /\ \E model_name \in ServerModelNames, path \in PredictFunctionPaths,
          f \in PredictFunctions :
          srv' = [srv EXCEPT !.phase = "unloaded", !.name = model_name,
                             !.predict_path = path, !.predict_func = f, !.model = "None",
                             !.ready = FALSE]
    /\ UNCHANGED <<stepVars, build>>

\* load(), line 47: kserve.Storage.download, outside the try block.
LoadDownload ==
    /\ srv.phase \in {"unloaded", "ready", "failed"}
    /\ \/ srv' = [srv EXCEPT !.phase = "loading", !.load = "none"]
       \/ srv' = [srv EXCEPT !.phase = IF srv.ready THEN "ready" ELSE "failed",
                             !.load = "raised"]
    /\ UNCHANGED <<stepVars, build>>

\* load(), lines 48-54: _load_model_with_zenml_artifact raises.
LoadFails ==
    /\ srv.phase = "loading"
    /\ \E f \in LoadFailures :
          srv' = [srv EXCEPT !.phase = IF srv.ready THEN "ready" ELSE "failed",
                             !.load = "false"]
    /\ UNCHANGED <<stepVars, build>>

\* load(), lines 48-56: the model is materialized.
LoadSucceeds ==
    /\ srv.phase = "loading"
    /\ srv' = [srv EXCEPT !.phase = "ready", !.model = "model", !.ready = TRUE,
                          !.load = "true"]
    /\ UNCHANGED <<stepVars, build>>

\* predict(request), lines 67-74
PredictOutcome(f, request) ==
    IF f.bound
    THEN IF f.on[request] = "raises"
         THEN [invoked |-> TRUE, outcome |-> "Exception", result |-> "none"]
         ELSE [invoked |-> TRUE, outcome |-> "returned", result |-> f.on[request]]
    ELSE [invoked |-> FALSE, outcome |-> "NotImplementedError", result |-> "none"]

Predict ==
    /\ srv.phase \in {"unloaded", "ready", "failed"}
    /\ \E request \in Requests :
          LET out == PredictOutcome(srv.predict_func, request)
          IN  srv' = [srv EXCEPT !.last =
                        [request |-> request, invoked |-> out.invoked,
                         ready |-> srv.ready,
                         behaviour |-> IF srv.predict_func.bound
                                       THEN srv.predict_func.on[request] ELSE "",
                         outcome |-> out.outcome, result |-> out.result]]
    /\ UNCHANGED <<stepVars, build>>

\* main, lines 99-133.  The options click declares, the flag of each, its
\* default, and the parameters of the function click calls with one keyword
\* argument per option.
MainOptions == {"model_name", "model_dir", "predict_func", "load_func"}
MainParameters == {"model_name", "model_uri", "predict_func"}
OptionFlag ==
    [model_name |-> "--model_name", model_dir |-> "--model_dir",
     predict_func |-> "--predict_func", load_func |-> "--load_func"]
OptionDefault ==
    [model_name |-> "/tmp/model", model_dir |-> "model", predict_func |-> "",
     load_func |-> ""]
RequiredOptions == {"model_name", "model_dir", "predict_func"}

\* The arguments after `python -m <module>`: flag, value, flag, value, ...
OptionArgs(argv) == SubSeq(argv, 4, Len(argv))

WellFormed(argv) ==
    LET args == OptionArgs(argv)
    IN  /\ Len(args) % 2 = 0
        /\ \A i \in 1..Len(args) :
              i % 2 = 1 => \E o \in MainOptions : args[i] = OptionFlag[o]

Given(argv, o) ==
    \E i \in 1..Len(OptionArgs(argv)) :
        i % 2 = 1 /\ OptionArgs(argv)[i] = OptionFlag[o]

OptionValue(argv, o) ==
    LET args == OptionArgs(argv)
    IN  IF Given(argv, o)
        THEN args[(CHOOSE i \in 1..Len(args) :
                      i % 2 = 1 /\ args[i] = OptionFlag[o]) + 1]
        ELSE OptionDefault[o]

\* click's verdict on the command line: --model_name is declared as the
\* path of an existing directory (lines 100-108).
ParseError(argv, directories) ==
    \/ ~WellFormed(argv)
    \/ \E o \in RequiredOptions : OptionValue(argv, o) = "" /\ ~Given(argv, o)
    \/ OptionValue(argv, "model_name") \notin directories

\* The keyword arguments main is called with are the parameters it has.
MainBinds == MainOptions = MainParameters

\* The container starts with the command the custom deployer step built.
Main ==
    /\ srv.phase = "none" /\ srv.process = "not_started"
    /\ \E model_name \in ModelNames, path \in PredictFunctionPaths,
          directories \in SUBSET ({"/tmp/model"} \cup ModelNames) :
          LET argv == EntrypointCommand(
                        [service_config |-> [model_name |-> model_name],
                         custom_deploy_paramters |-> [predict_function |-> path]])
          IN  IF ParseError(argv, directories)
              THEN srv' = [srv EXCEPT !.process = "crashed", !.argv = argv,
                                      !.exit = "UsageError"]
              ELSE IF ~MainBinds
              THEN srv' = [srv EXCEPT !.process = "crashed", !.argv = argv,
                                      !.exit = "TypeError"]
              ELSE \E f \in PredictFunctions, load \in {"true", "false", "raised"} :
                     srv' = [srv EXCEPT
                        !.phase = IF load = "true" THEN "ready" ELSE "failed",
                        !.name = OptionValue(argv, "model_name"),
                        !.predict_path = OptionValue(argv, "predict_func"),
                        !.predict_func = f,
                        !.model = IF load = "true" THEN "model" ELSE "None",
                        !.ready = (load = "true"), !.load = load,
                        !.argv = argv,
                        !.process = IF load = "raised" THEN "crashed" ELSE "serving"]
    /\ UNCHANGED <<stepVars, build>>

\* The object is dropped; another one can be constructed.
Discard ==
    /\ srv.phase \in {"unloaded", "ready", "failed"}
    /\ srv' = [NoServer EXCEPT !.process = srv.process, !.argv = srv.argv,
                            !.exit = srv.exit]
    /\ UNCHANGED <<stepVars, build>>

ServerInit == StepInit /\ srv = NoServer /\ build = NoBuild

NextServer ==
    \/ Construct
    \/ LoadDownload
    \/ LoadFails
    \/ LoadSucceeds
    \/ Predict
    \/ Main
    \/ Discard

SpecServer == ServerInit /\ [][NextServer]_vars


\* =================================================================
\* Properties of the deployer steps
\* =================================================================

LookupDone(r) == Len(calls[r]) >= 1 /\ calls[r][1].op = "find_model_server"
LookupIdentity(r) == calls[r][1].ident
Exists(reg, svc) == \E i \in 1..Len(reg[svc.ident]) : reg[svc.ident][i].n = svc.n
Leaves(r) == pc[r] = "found" /\ pc'[r] # "found"
NewCalls(r) == SubSeq(calls'[r], Len(calls[r]) + 1, Len(calls'[r]))

\* C1: when the lookup finds no service and deploy_decision is false, the
\* step makes no start call; if it returns it has called deploy_model exactly
\* once, with replace=True, and returns the service of that call, which is in
\* the registry under the looked-up identity; it returns no "no service", and
\* it ends without a service only with an error: the platform's, or that of
\* a pytorch configuration without its parameters.
C1_FallbackCreate ==
    \A r \in Runs :
        (pc[r] \in {"returned", "failed"} /\ LookupDone(r)
            /\ ~deploy_decision[r] /\ existing_services[r] = <<>>)
        => /\ CallsOf(r, "start") = {}
           /\ Cardinality(CallsOf(r, "deploy_model")) <= 1
           /\ \A i \in CallsOf(r, "deploy_model") : calls[r][i].replace
           /\ pc[r] = "returned" =>
                /\ Cardinality(CallsOf(r, "deploy_model")) = 1
                /\ \A i \in CallsOf(r, "deploy_model") : service[r] = calls[r][i].svc
                /\ service[r] # NoService
                /\ Exists(registry, service[r])
                /\ service[r].ident = LookupIdentity(r)
           /\ pc[r] = "failed" =>
                error[r] \in {"DeploymentError", "MissingTorchParamters"}

C1_Witness ==
    \E r \in Runs :
        /\ pc[r] = "returned" /\ LookupDone(r)
        /\ ~deploy_decision[r] /\ existing_services[r] = <<>>
        /\ Cardinality(CallsOf(r, "deploy_model")) = 1
        /\ service[r].ident = LookupIdentity(r)

\* C2: when the lookup finds exactly one service, that service is running
\* and deploy_decision is false, the step returns that service, makes no
\* call to the platform (neither deploy_model nor start) and leaves the
\* registry as it is.
C2_ReuseRunning ==
    [][\A r \in Runs :
          (Leaves(r) /\ ~deploy_decision[r] /\ Len(existing_services[r]) = 1
              /\ is_running(registry, existing_services[r][1]))
          => /\ pc'[r] = "returned"
             /\ service'[r] = existing_services[r][1]
             /\ calls'[r] = calls[r]
             /\ registry' = registry]_vars

C2_Witness ==
    \E r \in Runs :
        /\ pc[r] = "returned" /\ ~deploy_decision[r]
        /\ Len(existing_services[r]) = 1
        /\ service[r] = existing_services[r][1]
        /\ Len(calls[r]) = 1
        /\ is_running(registry, service[r])

\* The step acts on exactly one existing service that is not running, with
\* deploy_decision false.
ActsOnStopped(r) ==
    /\ Leaves(r) /\ ~deploy_decision[r] /\ Len(existing_services[r]) = 1
    /\ ~is_running(registry, existing_services[r][1])

StartsOnce(r) ==
    /\ Len(NewCalls(r)) = 1
    /\ NewCalls(r)[1].op = "start"
    /\ NewCalls(r)[1].svc = existing_services[r][1]
    /\ NewCalls(r)[1].timeout = config[r].timeout

\* C3 as stated: with exactly one existing service that is not running and
\* deploy_decision false, the step calls start(timeout) on it exactly once,
\* does not call deploy_model, and the service it returns is that service and
\* is running when the step returns.
C3_StartStopped_Original ==
    [][\A r \in Runs :
          ActsOnStopped(r)
          => /\ StartsOnce(r)
             /\ pc'[r] = "returned" =>
                  /\ service'[r] = existing_services[r][1]
                  /\ is_running(registry', service'[r])]_vars

\* C3 as amended: as above, but the returned service is running when the
\* step returns only if the configured timeout is positive; with a timeout
\* of zero start does not wait for readiness.
C3_StartStopped ==
    [][\A r \in Runs :
          ActsOnStopped(r)
          => /\ StartsOnce(r)
             /\ pc'[r] = "returned" =>
                  /\ service'[r] = existing_services[r][1]
                  /\ config[r].timeout > 0 => is_running(registry', service'[r])]_vars

C3_Witness ==
    \E r \in Runs :
        /\ pc[r] = "returned" /\ ~deploy_decision[r]
        /\ Len(existing_services[r]) = 1
        /\ service[r] = existing_services[r][1]
        /\ Len(calls[r]) = 2 /\ calls[r][2].op = "start"
        /\ calls[r][2].timeout > 0
        /\ is_running(registry, service[r])

\* C4: with deploy_decision true, whatever the lookup found, the step never
\* takes the reuse path (no start call, no return without a deploy_model
\* call); the generic step calls deploy_model once its service configuration
\* is prepared, the custom step once its image is prepared; every
\* deploy_model call has replace=True and the
\* configured timeout and the looked-up identity; a returned service is the
\* one deploy_model produced and carries the looked-up identity.
C4_DeployAlways ==
    \A r \in Runs :
        (pc[r] \in {"returned", "failed"} /\ LookupDone(r) /\ deploy_decision[r])
        => /\ CallsOf(r, "start") = {}
           /\ \A i \in CallsOf(r, "deploy_model") :
                /\ calls[r][i].replace
                /\ calls[r][i].timeout = config[r].timeout
                /\ calls[r][i].ident = LookupIdentity(r)
           /\ (\/ kind[r] = "generic" /\ error[r] # "MissingTorchParamters"
               \/ pc[r] = "returned"
               \/ kind[r] = "custom" /\ calls[r][Len(calls[r])].ok)
                => Cardinality(CallsOf(r, "deploy_model")) = 1
           /\ pc[r] = "returned" =>
                /\ \A i \in CallsOf(r, "deploy_model") : service[r] = calls[r][i].svc
                /\ Exists(registry, service[r])
                /\ service[r].ident = LookupIdentity(r)

C4_Witness ==
    \E r \in Runs :
        /\ pc[r] = "returned" /\ deploy_decision[r]
        /\ existing_services[r] # <<>>
        /\ Cardinality(CallsOf(r, "deploy_model")) = 1
        /\ service[r].ident = LookupIdentity(r)

JustReturned(r) == pc[r] # "returned" /\ pc'[r] = "returned"

\* C5 as stated: every invocation that returns leaves its service running.
C5_Available_Original ==
    [][\A r \in Runs : JustReturned(r) => is_running(registry', service'[r])]_vars

\* C5 as amended: every invocation that returns leaves its service running,
\* unless it started or deployed the service with a timeout of zero, which
\* does not wait for readiness.
C5_Available ==
    [][\A r \in Runs :
          JustReturned(r)
          => \/ is_running(registry', service'[r])
             \/ /\ config[r].timeout = 0
                /\ Len(calls'[r]) > Len(calls[r])]_vars

C5_Witness ==
    \E r \in Runs :
        /\ pc[r] = "returned" /\ ~deploy_decision[r]
        /\ existing_services[r] # <<>>
        /\ CallsOf(r, "start") # {}
        /\ config[r].timeout > 0
        /\ is_running(registry, service[r])

RunningServices(ident) == {i \in 1..Len(registry[ident]) : registry[ident][i].running}

\* C6: no identity ever has two running services, also when two pipeline
\* runs race on it.
C6_OneRunning ==
    \A ident \in Identities : Cardinality(RunningServices(ident)) <= 1

C6_Witness ==
    \E r1 \in Runs, r2 \in Runs :
        /\ r1 # r2
        /\ pc[r1] = "returned" /\ pc[r2] = "returned"
        /\ existing_services[r1] = <<>> /\ existing_services[r2] = <<>>
        /\ CallsOf(r1, "deploy_model") # {} /\ CallsOf(r2, "deploy_model") # {}
        /\ service[r1].ident = service[r2].ident
        /\ Cardinality(RunningServices(service[r1].ident)) = 1

\* C7: a call to the platform that fails is the last call of the invocation
\* and the step ends failed, with no service; an invocation makes at most one
\* start call and at most one deploy_model call, and never both.
C7_NoRetry ==
    \A r \in Runs :
        /\ Cardinality(CallsOf(r, "start")) <= 1
        /\ Cardinality(CallsOf(r, "deploy_model")) <= 1
        /\ CallsOf(r, "start") = {} \/ CallsOf(r, "deploy_model") = {}
        /\ \A i \in 1..Len(calls[r]) :
              ~calls[r][i].ok =>
                 /\ i = Len(calls[r])
                 /\ pc[r] = "failed"
                 /\ error[r] = "DeploymentError"
                 /\ service[r] = NoService
        /\ pc[r] = "failed" => service[r] = NoService

C7_Witness ==
    \E r \in Runs :
        /\ pc[r] = "failed"
        /\ CallsOf(r, "start") # {}
        /\ ~calls[r][Len(calls[r])].ok
        /\ ~is_running(registry, existing_services[r][1])

\* =================================================================
\* Properties of the custom model server
\* =================================================================

\* C8: load() never raises: it ends with true and the server Ready, or with
\* a failure signal and the server not Ready.
C8_LoadNeverRaises ==
    /\ srv.load # "raised"
    /\ srv.load = "true" => srv.ready
    /\ srv.load = "false" => ~srv.ready

\* C9: the bound predict function is invoked on a request only when the
\* server is Ready.
C9_PredictOnlyReady == srv.last.invoked => srv.last.ready

\* C10: predict ends in the prediction error when the function raises and
\* when it returns something that is not a mapping; it returns the function's
\* result only when that is a mapping.
C10_PredictionError ==
    /\ srv.last.behaviour = "raises" => srv.last.outcome = "Exception"
    /\ srv.last.behaviour = "not_mapping" => srv.last.outcome = "Exception"
    /\ srv.last.outcome = "returned" => srv.last.result = "mapping"

\* =================================================================
\* Properties of the parameter objects
\* =================================================================

ResolvesToCallable(v) ==
    /\ v # ""
    /\ import_class_by_path(v).raises = "none"
    /\ import_class_by_path(v).object = "callable"

\* C11: constructing the custom deploy parameters fails with the validation
\* error for every predict_function that does not resolve to a callable, and
\* succeeds with the reference unchanged otherwise.
C11_PredictFunctionCallable ==
    build.what = "custom" =>
        IF ResolvesToCallable(build.custom_in)
        THEN build.error = "none" /\ build.custom_out = build.custom_in
        ELSE build.error = "ValidationError"

Outside(v) == ~is_inside_repository(v)

\* Some path of the input is outside the project root: the model class, a
\* handler that is no built-in handler, an extra file, or the torch config
\* (None and the empty string count as no torch config).
AnyOutside(in) ==
    \/ Outside(in.model_class)
    \/ in.handler \notin TORCH_HANDLERS /\ Outside(in.handler)
    \/ in.extra_files.some /\ \E i \in 1..Len(in.extra_files.v) :
                                  Outside(in.extra_files.v[i])
    \/ in.torch_config.some /\ in.torch_config.v # EmptyPath
         /\ Outside(in.torch_config.v)

InRoot(v) == PathJoin(SourceRoot, v)

\* C12: constructing the PyTorch-serving parameters fails exactly when one
\* of its paths is outside the project root; otherwise every path is the
\* project root joined with the path given, a built-in handler name is kept,
\* and absent extra_files and torch_config stay as they are.
C12_TorchPaths ==
    build.what = "torch" =>
        LET in == build.torch_in
            out == build.torch_out
        IN  /\ AnyOutside(in) <=> build.error = "ValidationError"
            /\ ~AnyOutside(in) =>
                 /\ build.error = "none"
                 /\ out.model_class = InRoot(in.model_class)
                 /\ out.handler = IF in.handler \in TORCH_HANDLERS
                                  THEN in.handler ELSE InRoot(in.handler)
                 /\ out.extra_files.some = in.extra_files.some
                 /\ Len(out.extra_files.v) = Len(in.extra_files.v)
                 /\ \A i \in 1..Len(in.extra_files.v) :
                       out.extra_files.v[i] = InRoot(in.extra_files.v[i])
                 /\ out.torch_config =
                       IF in.torch_config.some /\ in.torch_config.v # EmptyPath
                       THEN Some(InRoot(in.torch_config.v))
                       ELSE in.torch_config

C12_Witness ==
    /\ build.what = "torch" /\ build.error = "none"
    /\ ~build.torch_in.model_class.abs
    /\ build.torch_out.model_class = InRoot(build.torch_in.model_class)
    /\ build.torch_in.handler \notin TORCH_HANDLERS
    /\ build.torch_in.extra_files.some /\ Len(build.torch_in.extra_files.v) = 2
    /\ build.torch_in.torch_config.some
    /\ build.torch_in.torch_config.v # EmptyPath

\* =================================================================
\* Properties of the deployed configuration and of failing fast
\* =================================================================

HasContainers(service_config) == service_config.containers # NoContainers

\* C13: every service configuration handed to deploy_model has containers
\* if and only if its predictor is custom.
C13_ContainersIffCustom ==
    \A r \in Runs : \A i \in CallsOf(r, "deploy_model") :
        HasContainers(calls[r][i].service_config)
            <=> calls[r][i].service_config.predictor = "custom"

ConfigErrors == {"ValueError", "MissingTorchParamters"}

\* C15: a step that ends with a configuration error has made no call to the
\* platform.
C15_FailFast ==
    \A r \in Runs :
        (pc[r] = "failed" /\ error[r] \in ConfigErrors) => calls[r] = <<>>

\* =================================================================
\* Properties of the entrypoint
\* =================================================================

\* C14: the command the custom deployer step builds is accepted by the
\* server's command line, and the server is constructed with the model name
\* and the predict function of the command.
C14_EntrypointRoundTrip ==
    srv.argv # <<>> =>
        /\ srv.exit = "none"
        /\ srv.phase # "none"
        /\ srv.name = srv.argv[5]
        /\ srv.predict_path = srv.argv[7]

\* =================================================================
\* Properties of the steps on an identity with several services
\* =================================================================

Untouched(r, first) ==
    /\ \A ident \in Identities : Len(registry'[ident]) = Len(registry[ident])
    /\ \A ident \in Identities : \A i \in 1..Len(registry[ident]) :
          (ident # first.ident \/ registry[ident][i].n # first.n)
             => registry'[ident][i] = registry[ident][i]

\* C16: with several matches and deploy_decision false the step acts on the
\* first match only: it starts it if it is not running (and makes no other
\* call), returns it, and leaves every other service as it was.
C16_OnlyFirstMatch ==
    [][\A r \in Runs :
          (Leaves(r) /\ ~deploy_decision[r] /\ Len(existing_services[r]) >= 2)
          => LET first == existing_services[r][1]
             IN  /\ pc'[r] = "returned" => service'[r] = first
                 /\ is_running(registry, first) =>
                       /\ pc'[r] = "returned"
                       /\ calls'[r] = calls[r]
                       /\ registry' = registry
                 /\ ~is_running(registry, first) =>
                       /\ Len(NewCalls(r)) = 1
                       /\ NewCalls(r)[1].op = "start"
                       /\ NewCalls(r)[1].svc = first
                 /\ Untouched(r, first)]_vars

C16_Witness ==
    \E r \in Runs :
        /\ pc[r] = "returned" /\ ~deploy_decision[r]
        /\ Len(existing_services[r]) >= 2
        /\ service[r] = existing_services[r][1]
        /\ CallsOf(r, "start") # {}
        /\ is_running(registry, existing_services[r][1])
        /\ is_running(registry, existing_services[r][2])

\* The branch a run takes when it leaves the lookup: it returns the service
\* it found, starts it, or goes down the deploy branch (where preparing the
\* deployment can fail before deploy_model is called).
ObservedAction(r) ==
    IF NewCalls(r) = <<>>
    THEN IF pc'[r] = "returned" THEN "return" ELSE "deploy"
    ELSE IF NewCalls(r)[1].op = "start" THEN "start" ELSE "deploy"

\* The service configuration the other step would deploy.
OtherServiceConfig(r) ==
    IF kind[r] = "generic"
    THEN CustomServiceConfig(config[r], "custom_docker_image")
    ELSE GenericServiceConfig(config[r])

\* C17: on the same deploy decision, lookup result, registry and
\* configuration (custom deploy parameters supplied) the generic and the
\* custom step decide the same: the same action, on the same service or
\* identity, with the same replace flag and timeout; a run of either step
\* takes that action with those arguments and leaves the registry as the
\* other step would (a deploy branch that fails while preparing the
\* deployment leaves it unchanged, as a failed deploy_model does).
C17_SameDecision ==
    [][\A r \in Runs :
          (Leaves(r) /\ config[r].custom_deploy_paramters.present)
          => LET g == GenericDecision(deploy_decision[r], existing_services[r],
                                      registry, config[r])
                 c == CustomDecision(deploy_decision[r], existing_services[r],
                                     registry, config[r])
                 other == IF kind[r] = "generic" THEN c ELSE g
             IN  /\ g = c
                 /\ ObservedAction(r) = other.action
                 /\ other.action = "return" =>
                       registry' = registry /\ service'[r] = other.svc
                 /\ other.action = "start" =>
                       /\ NewCalls(r)[1].svc = other.svc
                       /\ NewCalls(r)[1].timeout = other.timeout
                       /\ registry' \in {start(registry, other.svc, o) :
                                           o \in StartOutcomes(other.timeout)}
                 /\ \A i \in 1..Len(NewCalls(r)) :
                       NewCalls(r)[i].op = "deploy_model" =>
                          /\ NewCalls(r)[i].replace = other.replace
                          /\ NewCalls(r)[i].timeout = other.timeout
                          /\ NewCalls(r)[i].ident = other.ident
                 /\ other.action = "deploy" =>
                       registry' \in {registry} \cup
                          {deploy_model(registry, OtherServiceConfig(r),
                                        other.replace, o).registry :
                              o \in DeployOutcomes(other.timeout)}]_vars

C17_Witness ==
    \E r \in Runs :
        /\ pc[r] = "returned" /\ kind[r] = "custom"
        /\ deploy_decision[r]
        /\ Len(existing_services[r]) >= 2
        /\ CallsOf(r, "deploy_model") # {}
        /\ config[r].timeout > 0
        /\ Cardinality(RunningServices(service[r].ident)) = 1

====
